---- MODULE Spec2Model ----
(***************************************************************************)
(* Antra BMS protocol engine (custom_components/antra_bms/coordinator.py): *)
(* frame codec, transport driver, field decoder, header / battery block    *)
(* parsers and the poll cycle of AntraDataCoordinator.                     *)
(*                                                                         *)
(* Byte strings are TLA+ strings, one character per byte.  Python's        *)
(* 0-based half-open slices are the operators PySlice, StripEnds, Last4    *)
(* and DropLast4.  The character "!" stands for the byte 0xFF, the one     *)
(* non-ASCII byte of the model's alphabet.                                 *)
(***************************************************************************)
EXTENDS Integers, Sequences, FiniteSets, TLC

(***************************************************************************)
(* Bytes and slices                                                        *)
(***************************************************************************)
Min(a, b) == IF a <= b THEN a ELSE b

\* The element of a singleton.  { e(x) : x \in {v} } computes v once and
\* names it x in e; Only takes the result out of the set.
Only(S) == CHOOSE v \in S : TRUE

\* The byte value of a character (Python's ord / iteration over bytes).
Ord(c) ==
  CASE c = "0" -> 48  [] c = "1" -> 49  [] c = "2" -> 50  [] c = "3" -> 51
    [] c = "4" -> 52  [] c = "5" -> 53  [] c = "6" -> 54  [] c = "7" -> 55
    [] c = "8" -> 56  [] c = "9" -> 57
    [] c = "A" -> 65  [] c = "B" -> 66  [] c = "C" -> 67  [] c = "D" -> 68
    [] c = "E" -> 69  [] c = "F" -> 70  [] c = "G" -> 71
    [] c = "a" -> 97  [] c = "b" -> 98  [] c = "c" -> 99  [] c = "d" -> 100
    [] c = "e" -> 101 [] c = "f" -> 102
    [] c = "X" -> 88  [] c = "x" -> 120 [] c = "_" -> 95
    [] c = "+" -> 43  [] c = "-" -> 45  [] c = " " -> 32
    [] c = "~" -> 126 [] c = "\r" -> 13
    [] c = "!" -> 255

Char(s, i) == SubSeq(s, i, i)

\* s[a:b] for 0 <= a, 0 <= b : clamped, never raises.
PySlice(s, a, b) ==
  LET hi == Min(b, Len(s)) IN IF a >= hi THEN "" ELSE SubSeq(s, a + 1, hi)

\* s[1:-1]
StripEnds(s) == IF Len(s) <= 2 THEN "" ELSE SubSeq(s, 2, Len(s) - 1)
\* s[-4:]
Last4(s) == IF Len(s) <= 4 THEN s ELSE SubSeq(s, Len(s) - 3, Len(s))
\* s[:-4]
DropLast4(s) == IF Len(s) <= 4 THEN "" ELSE SubSeq(s, 1, Len(s) - 4)

\* bytes.decode('ascii') succeeds iff every byte is below 128.
\* (The folds over a string split it in halves, to keep the recursion shallow.)
RECURSIVE AsciiRange(_, _, _)
AsciiRange(s, lo, hi) ==
  IF lo > hi THEN TRUE
  ELSE IF lo = hi THEN Ord(Char(s, lo)) < 128
  ELSE \A mid \in {(lo + hi) \div 2} :
         AsciiRange(s, lo, mid) /\ AsciiRange(s, mid + 1, hi)
IsAscii(s) == \A v \in {s} : AsciiRange(v, 1, Len(v))

\* sum(ord(c) for c in s)
RECURSIVE SumRange(_, _, _)
SumRange(s, lo, hi) ==
  IF lo > hi THEN 0
  ELSE IF lo = hi THEN Ord(Char(s, lo))
  ELSE Only({ SumRange(s, lo, mid) + SumRange(s, mid + 1, hi) :
                mid \in {(lo + hi) \div 2} })
SumOrd(s) == Only({ SumRange(v, 1, Len(v)) : v \in {s} })

(***************************************************************************)
(* int(s, 16) and the format specs :02X / :04X                             *)
(***************************************************************************)
HexDigitVal(c) ==
  CASE c = "0" -> 0  [] c = "1" -> 1  [] c = "2" -> 2  [] c = "3" -> 3
    [] c = "4" -> 4  [] c = "5" -> 5  [] c = "6" -> 6  [] c = "7" -> 7
    [] c = "8" -> 8  [] c = "9" -> 9
    [] c = "A" -> 10 [] c = "B" -> 11 [] c = "C" -> 12 [] c = "D" -> 13
    [] c = "E" -> 14 [] c = "F" -> 15
    [] c = "a" -> 10 [] c = "b" -> 11 [] c = "c" -> 12 [] c = "d" -> 13
    [] c = "e" -> 14 [] c = "f" -> 15
    [] OTHER -> -1

RECURSIVE LStrip(_)
LStrip(s) == IF Len(s) > 0 /\ Char(s, 1) = " " THEN LStrip(Tail(s)) ELSE s
RECURSIVE RStrip(_)
RStrip(s) ==
  IF Len(s) > 0 /\ Char(s, Len(s)) = " "
  THEN RStrip(PySlice(s, 0, Len(s) - 1)) ELSE s

\* The digits of an integer literal: hex digits, single underscores between
\* digits (and right after a base prefix).  prev is "start", "prefix",
\* "digit" or "us".  -1 when the literal is malformed.
RECURSIVE DigitsFrom(_, _, _, _)
DigitsFrom(t, i, acc, prev) ==
  IF i > Len(t) THEN (IF prev = "digit" THEN acc ELSE -1)
  ELSE Only({
       IF h >= 0 THEN DigitsFrom(t, i + 1, acc * 16 + h, "digit")
       ELSE IF Char(t, i) = "_" /\ prev \in {"digit", "prefix"}
            THEN DigitsFrom(t, i + 1, acc, "us")
       ELSE -1 : h \in {HexDigitVal(Char(t, i))} })

\* int(s, 16): surrounding whitespace, an optional sign, an optional 0x / 0X
\* prefix, then the digits.  [ok |-> FALSE] stands for ValueError.
IntHex(s) ==
  Only({ Only({ Only({ Only({
    IF m < 0 THEN [ok |-> FALSE, val |-> 0]
    ELSE [ok |-> TRUE, val |-> IF Len(t) > 0 /\ Char(t, 1) = "-" THEN 0 - m ELSE m] :
    m   \in {DigitsFrom(IF pre THEN PySlice(u, 2, Len(u)) ELSE u, 1, 0,
                        IF pre THEN "prefix" ELSE "start")} }) :
    pre \in {Len(u) >= 2 /\ Char(u, 1) = "0" /\ Char(u, 2) \in {"x", "X"}} }) :
    u   \in {IF Len(t) > 0 /\ Char(t, 1) \in {"+", "-"} THEN Tail(t) ELSE t} }) :
    t   \in {RStrip(LStrip(s))} })

HexChar(d) == Char("0123456789ABCDEF", d + 1)

RECURSIVE HexStr(_)
HexStr(n) == IF n < 16 THEN HexChar(n) ELSE HexStr(n \div 16) \o HexChar(n % 16)

RECURSIVE ZeroPad(_, _)
ZeroPad(s, w) == IF Len(s) >= w THEN s ELSE ZeroPad("0" \o s, w)

\* f"{n:02X}" and f"{n:04X}" for n >= 0: at least w digits, more if needed.
FormatX(n, w) == ZeroPad(HexStr(n), w)

\* A faulty complement that leaves the sum as it is, against which the known
\* command is tested.
Xor16_skipped(a) == a

\* a ^ 0xFFFF for 0 <= a < 65536
Xor16(a) == 65535 - a

\* time.sleep(0.9) and the default timeout of _read_response (2.0), in
\* tenths of a second; the shortest response that is not skipped.
SleepTicks == 9
TimeoutTicks == 20
MinResponseLen == 30
\* group_number of the coordinator (its default).
DefaultGroup == 0

\* An optional argument: <<>> is None, <<v>> is the value v.
None == <<>>
Some(v) == <<v>>

(***************************************************************************)
(* Checksum / frame codec                                                  *)
(***************************************************************************)
\* A faulty address (the group shifted by three bits only), against which
\* the address formula is tested.
calculate_address_narrow(battery_number, group_number) ==
  IF battery_number = None THEN 0 + (8 * group_number)
  ELSE battery_number[1] + (8 * group_number)

\* _calculate_address: position + 0x10 * group, position 0 when absent.
calculate_address(battery_number, group_number) ==
  IF battery_number = None THEN 0 + (16 * group_number)
  ELSE battery_number[1] + (16 * group_number)

\* _verify_known_checksum: the checksum of the known working command.
verify_known_checksum == Xor16(SumOrd("22004A42E002FF") % 65536) + 1

\* info_byte when none is passed: "FF" for a system query, else the address.
info_default(battery_number, info_byte, address) ==
  IF info_byte # None THEN info_byte[1]
  ELSE IF battery_number = None THEN "FF" ELSE FormatX(address, 2)

\* A faulty builder that keeps the info byte it was given, against which
\* the fixed INFO field is tested.
info_kept(info) == info

\* info_byte = b"FF": the assignment that follows the default.
info_override(info) == "FF"

\* The frame of _build_command before the checksum is appended.  info_byte
\* is overwritten with b"FF" whatever was passed.
build_body(command, battery_number, info_byte, group_number) ==
  Only({ "~" \o "22" \o FormatX(address, 2) \o "4A" \o command \o "E002"
           \o info_override(info_default(battery_number, info_byte, address)) :
    address \in {calculate_address(battery_number, group_number)} })

\* A faulty checksum (the complement without the increment), against which
\* the round trip is tested.
build_checksum_no_increment(command, battery_number, info_byte, group_number) ==
  Xor16(SumOrd(PySlice(build_body(command, battery_number, info_byte, group_number),
                       1, 100)) % 65536)

\* checksum of _build_command: sum over frame[1:], mod 65536, xor, plus 1.
build_checksum(command, battery_number, info_byte, group_number) ==
  Only({ Only({ Xor16(remainder) + 1 :
    remainder \in {SumOrd(PySlice(frame, 1, Len(frame))) % 65536} }) :
    frame     \in {build_body(command, battery_number, info_byte, group_number)} })

build_command(command, battery_number, info_byte, group_number) ==
  build_body(command, battery_number, info_byte, group_number)
    \o FormatX(build_checksum(command, battery_number, info_byte, group_number), 4)
    \o "\r"

\* "expected" of _verify_checksum, for data that decodes as ASCII.
verify_expected(frame_bytes) ==
  Only({ Xor16(remainder) + 1 :
         remainder \in {SumOrd(DropLast4(StripEnds(frame_bytes))) % 65536} })

\* _verify_checksum: any exception (non-ASCII byte, unparsable trailer) is
\* caught and gives False.
verify_checksum(frame_bytes) ==
  \E hex_str \in {StripEnds(frame_bytes)} :
    /\ IsAscii(hex_str)
    /\ \E msg_checksum \in {IntHex(Last4(hex_str))} :
         /\ msg_checksum.ok
         /\ msg_checksum.val = verify_expected(frame_bytes)

\* _calculate_checksum: sum of data[1:-3], mod 65536, xor, plus 1.
calculate_checksum(frame_bytes) ==
  Only({ Xor16(remainder) + 1 :
         remainder \in {SumOrd(IF Len(frame_bytes) <= 4 THEN ""
                               ELSE SubSeq(frame_bytes, 2, Len(frame_bytes) - 3)) % 65536} })

rtn_codes == {"00", "01", "02", "03", "04", "05", "06", "90", "91"}

\* _validate_response: True iff the RTN at hex_str[6:8] is "00".
validate_response(response) ==
  \E hex_str \in {StripEnds(response)} :
    \E rtn \in {PySlice(hex_str, 6, 8)} :
      IF ~IsAscii(hex_str) THEN FALSE
      ELSE IF rtn \notin rtn_codes THEN FALSE
      ELSE IF rtn # "00" THEN FALSE
      ELSE TRUE

\* _decode_frame logs the fields of a frame; an exception inside it (a
\* non-ASCII byte, an ADR that is no number) is caught and logged.
\* "done" : returned normally; "raised" : an exception left the function.
decode_frame_except == "done"

decode_frame(frame_bytes, direction) ==
  Only({ IF ~IsAscii(hex_str) \/ ~IntHex(PySlice(hex_str, 2, 4)).ok
         THEN decode_frame_except
         ELSE "done" :
         hex_str \in {StripEnds(frame_bytes)} })

\* A faulty loop that does not look at the return code, against which the
\* gates are tested.
accepts_any_rtn(response) ==
  /\ Len(response) > 0 /\ Char(response, 1) = "~"
  /\ Char(response, Len(response)) = "\r"
  /\ verify_checksum(response)
  /\ ~(Len(response) < MinResponseLen)

\* A faulty loop without the length gate, against which the rejection of
\* short frames is tested.
accepts_any_length(response) ==
  /\ Len(response) > 0 /\ Char(response, 1) = "~"
  /\ Char(response, Len(response)) = "\r"
  /\ verify_checksum(response)
  /\ validate_response(response)

\* The four gates of the loop of _read_response (lines 362-380), in order:
\* delimiters, checksum, minimum length, return code.
accepts(response) ==
  /\ Len(response) > 0 /\ Char(response, 1) = "~"
  /\ Char(response, Len(response)) = "\r"
  /\ verify_checksum(response)
  /\ ~(Len(response) < MinResponseLen)
  /\ validate_response(response)

(***************************************************************************)
(* Field decoder                                                           *)
(***************************************************************************)
RECURSIVE Pow2(_)
Pow2(n) == IF n <= 0 THEN 1 ELSE 2 * Pow2(n - 1)

\* A float n / d, kept exact.
Scaled(n, d) == [num |-> n, den |-> d]

\* A failed field read (int() raised ValueError).
Failed == [ok |-> FALSE, val |-> 0]

\* int(decoded[pos:pos+length], 16)
read_int(decoded, pos, length) == IntHex(PySlice(decoded, pos, pos + length))

\* int(decoded[pos:pos+length], 16) / scale
read_div(decoded, pos, length, scale) ==
  Only({ IF raw.ok THEN [ok |-> TRUE, val |-> Scaled(raw.val, scale)] ELSE Failed :
         raw \in {read_int(decoded, pos, length)} })

\* A faulty conversion that folds at 16 bits whatever the width, against
\* which the sign fold is tested.
convert_signed_16(decoded, pos, length, scale) ==
  Only({
    IF ~raw.ok THEN Failed
    ELSE IF raw.val >= 32768
         THEN [ok |-> TRUE, val |-> Scaled(raw.val - 65536, scale)]
         ELSE [ok |-> TRUE, val |-> Scaled(raw.val, scale)] :
    raw \in {read_int(decoded, pos, length)} })

\* convert_signed: two's complement over length * 4 bits, divided by scale.
convert_signed(decoded, pos, length, scale) ==
  Only({ Only({ Only({
    IF ~raw.ok THEN Failed
    ELSE IF raw.val >= sign_bit
         THEN [ok |-> TRUE, val |-> Scaled(raw.val - Pow2(bits), scale)]
         ELSE [ok |-> TRUE, val |-> Scaled(raw.val, scale)] :
    sign_bit \in {Pow2(bits - 1)} }) :
    bits     \in {length * 4} }) :
    raw      \in {read_int(decoded, pos, length)} })

\* One fixed-width field: its key, where it starts relative to the cursor,
\* the digits read, the digits the cursor advances afterwards, signed or
\* not, and the divisor (0: a raw int).
FieldAt(name, off, len, adv, signed, scale) ==
  [name |-> name, off |-> off, len |-> len, adv |-> adv,
   signed |-> signed, scale |-> scale]

\* A field of a battery block: read at the cursor (pos += adv after it).
Field(name, len, adv, signed, scale) == FieldAt(name, 0, len, adv, signed, scale)

\* A faulty header field read one field further on, against which the
\* documented sub-offsets are tested.
At_next_field(name, off, len, signed, scale) ==
  FieldAt(name, off + 4, len, 0, signed, scale)

\* A field of the header block: read at pos + off, the cursor stays.
At(name, off, len, signed, scale) == FieldAt(name, off, len, 0, signed, scale)

read_field(decoded, pos, f) ==
  IF f.signed THEN convert_signed(decoded, pos + f.off, f.len, f.scale)
  ELSE IF f.scale = 0 THEN read_int(decoded, pos + f.off, f.len)
  ELSE read_div(decoded, pos + f.off, f.len, f.scale)

NoFields == [n \in {} |-> 0]

\* The parser's progress: whether a read has raised, the values read so far
\* and the cursor.
Cursor(ok, vals, pos) == [ok |-> ok, vals |-> vals, pos |-> pos]

\* One field is read and the cursor advances; a read that raises leaves the
\* cursor where it is.
read_next(decoded, st, f) ==
  Only({ IF v.ok THEN Cursor(TRUE, (f.name :> v.val) @@ st.vals, st.pos + f.adv)
         ELSE Cursor(FALSE, st.vals, st.pos) :
         v \in {read_field(decoded, st.pos, f)} })

\* Reads fields[lo..hi] in order; stops at the first read that raises.
\* (The run is split in halves, to keep the recursion shallow.)
RECURSIVE read_range(_, _, _, _, _)
read_range(decoded, st, fields, lo, hi) ==
  IF lo > hi \/ ~st.ok THEN st
  ELSE IF lo = hi THEN read_next(decoded, st, fields[lo])
  ELSE Only({ Only({ read_range(decoded, left, fields, mid + 1, hi) :
                left \in {read_range(decoded, st, fields, lo, mid)} }) :
                mid  \in {(lo + hi) \div 2} })

\* Reads fields[i..] in order; stops at the first read that raises.
read_run(decoded, st, fields, i) == read_range(decoded, st, fields, i, Len(fields))

(***************************************************************************)
(* Header block parser                                                     *)
(***************************************************************************)
\* _parse_header_block: [ok |-> FALSE] when a field read raised (the
\* function logs and re-raises), else the header and the new position.
\* The reads of lines 424-452, in order.  Digits 36..39 are not read;
\* temperature_min is read from the first four digits of the reserved span.
HeaderFields ==
  << At("voltage", 0, 4, FALSE, 100),
     At("current", 4, 4, TRUE, 1),
     At("total_capacity", 8, 4, FALSE, 0),
     At("remaining_capacity", 12, 4, FALSE, 0),
     At("soc", 16, 4, FALSE, 0),
     At("max_ambient_temp", 20, 4, TRUE, 10),
     At("min_ambient_temp", 24, 4, TRUE, 10),
     At("max_cell_voltage", 28, 4, FALSE, 0),
     At("min_cell_voltage", 32, 4, FALSE, 0),
     At("temperature_max", 40, 4, TRUE, 10),
     At("temperature_min", 44, 4, TRUE, 10),
     At("cell_count", 62, 2, FALSE, 0),
     At("battery_count", 64, 2, FALSE, 0) >>

parse_header_block(decoded, pos) ==
  Only({ IF r.ok
         THEN [ok     |-> TRUE,
               header |-> [voltage            |-> r.vals["voltage"],
                           current            |-> r.vals["current"],
                           total_capacity     |-> r.vals["total_capacity"],
                           remaining_capacity |-> r.vals["remaining_capacity"],
                           soc                |-> r.vals["soc"],
                           max_ambient_temp   |-> r.vals["max_ambient_temp"],
                           min_ambient_temp   |-> r.vals["min_ambient_temp"],
                           max_cell_voltage   |-> r.vals["max_cell_voltage"],
                           min_cell_voltage   |-> r.vals["min_cell_voltage"],
                           temperature_max    |-> r.vals["temperature_max"],
                           temperature_min    |-> r.vals["temperature_min"],
                           reserved           |-> PySlice(decoded, pos + 44, pos + 62),
                           cell_count         |-> r.vals["cell_count"],
                           battery_count      |-> r.vals["battery_count"]],
               pos    |-> pos + 66]
         ELSE [ok |-> FALSE, header |-> <<>>, pos |-> pos] :
         r \in {read_run(decoded, Cursor(TRUE, NoFields, pos), HeaderFields, 1)} })

\* _transform_group_data: the same fields under the same names.
transform_group_data(header_data) ==
  [voltage            |-> header_data.voltage,
   current            |-> header_data.current,
   total_capacity     |-> header_data.total_capacity,
   remaining_capacity |-> header_data.remaining_capacity,
   soc                |-> header_data.soc,
   max_ambient_temp   |-> header_data.max_ambient_temp,
   min_ambient_temp   |-> header_data.min_ambient_temp,
   max_cell_voltage   |-> header_data.max_cell_voltage,
   min_cell_voltage   |-> header_data.min_cell_voltage,
   temperature_min    |-> header_data.temperature_min,
   temperature_max    |-> header_data.temperature_max,
   reserved           |-> header_data.reserved,
   cell_count         |-> header_data.cell_count,
   battery_count      |-> header_data.battery_count]

(***************************************************************************)
(* Battery block parser                                                    *)
(***************************************************************************)
\* Battery header .. cell count (lines 523-546).
BlockHead ==
  << Field("number", 2, 4, FALSE, 0),
     Field("soc", 2, 2, FALSE, 0),
     Field("voltage", 4, 4, FALSE, 100),
     Field("cell_count", 2, 2, FALSE, 0) >>

\* Ambient temperature .. sensor count (lines 560-582).
BlockTemps ==
  << Field("ambient_temperature", 4, 4, TRUE, 10),
     Field("pack_avg_temperature", 4, 4, TRUE, 10),
     Field("mos_temperature", 4, 4, TRUE, 10),
     Field("pack_temp_sensor_count", 2, 2, FALSE, 0) >>

\* Current .. balance status (lines 595-743).
BlockTail ==
  << Field("current", 4, 4, TRUE, 100),
     Field("internal_resistance", 4, 4, FALSE, 0),
     Field("soh", 4, 4, FALSE, 0),
     Field("user_defined", 2, 2, FALSE, 0),
     Field("full_charge_capacity", 4, 4, FALSE, 100),
     Field("remaining_capacity", 4, 4, FALSE, 100),
     Field("cycle_count", 4, 4, FALSE, 0),
     Field("max_cell_voltage", 4, 4, FALSE, 0),
     Field("min_cell_voltage", 4, 4, FALSE, 0),
     Field("max_cell_temp", 4, 4, TRUE, 10),
     Field("min_cell_temp", 4, 4, TRUE, 10),
     Field("unknown_3", 4, 4, FALSE, 0),
     Field("unknown_4", 4, 4, FALSE, 0),
     Field("avg_cell_temp", 4, 4, TRUE, 10),
     Field("average_cell_voltage", 4, 4, FALSE, 0),
     Field("total_charge", 4, 4, FALSE, 0),
     Field("total_discharge", 4, 4, FALSE, 0),
     Field("voltage_status", 4, 4, FALSE, 0),
     Field("current_status", 4, 4, FALSE, 0),
     Field("temperature_status", 4, 4, FALSE, 0),
     Field("alarm_status", 4, 4, FALSE, 0),
     Field("fet_status", 4, 4, FALSE, 0),
     Field("overvoltage_protect", 4, 4, FALSE, 0),
     Field("undervoltage_protect", 4, 4, FALSE, 0),
     Field("overvoltage_alarm", 4, 4, FALSE, 0),
     Field("undervoltage_alarm", 4, 4, FALSE, 0),
     Field("balance_status", 4, 4, FALSE, 0) >>

\* A faulty list read that consumes nothing, against which the consumed
\* length is tested.
read_list_none(decoded, st, count, signed, scale) == st

\* for i in range(count): read one 4-digit field, append, pos += 4.
append_next(decoded, st, signed, scale) ==
  Only({ IF v.ok THEN Cursor(TRUE, Append(st.vals, v.val), st.pos + 4)
         ELSE Cursor(FALSE, st.vals, st.pos) :
         v \in {read_field(decoded, st.pos, Field("item", 4, 4, signed, scale))} })

RECURSIVE read_list(_, _, _, _, _)
read_list(decoded, st, count, signed, scale) ==
  IF count <= 0 \/ ~st.ok THEN st
  ELSE Only({ read_list(decoded, nxt, count - 1, signed, scale) :
              nxt \in {append_next(decoded, st, signed, scale)} })

\* The next run of fields / the next list, from where prev stopped; nothing
\* is read once a read has raised.
run_after(decoded, prev, fields) ==
  IF prev.ok THEN read_run(decoded, Cursor(TRUE, NoFields, prev.pos), fields, 1)
  ELSE Cursor(FALSE, NoFields, prev.pos)

\* A faulty list read that takes the nominal layout (16 cells, 4 sensors)
\* instead of the count on the wire, against which the list lengths are tested.
list_after_nominal(decoded, prev, count_key, signed, scale) ==
  IF prev.ok
  THEN read_list(decoded, Cursor(TRUE, <<>>, prev.pos),
                 IF count_key = "cell_count" THEN 16 ELSE 4, signed, scale)
  ELSE Cursor(FALSE, <<>>, prev.pos)

list_after(decoded, prev, count_key, signed, scale) ==
  IF prev.ok
  THEN Only({ read_list(decoded, Cursor(TRUE, <<>>, prev.pos), count, signed, scale) :
              count \in {prev.vals[count_key]} })
  ELSE Cursor(FALSE, <<>>, prev.pos)

NoBattery == [ok |-> FALSE, battery |-> NoFields, pos |-> 0]

\* _parse_battery_block: [ok |-> FALSE] when a field read raised (logged and
\* re-raised), else the raw battery dict and the position after the block.
\* The two counts are read before the lists they govern.  The length check
\* against 212 only logs.
parse_battery_block(decoded, pos) ==
  Only({ Only({ Only({ Only({ Only({
    IF tail.ok
    THEN [ok      |-> TRUE,
          battery |-> head.vals @@ mid.vals @@ tail.vals
                        @@ ("cells" :> cells.vals) @@ ("pack_temperatures" :> temps.vals),
          pos     |-> tail.pos]
    ELSE NoBattery :
    tail  \in {run_after(decoded, temps, BlockTail)} }) :
    temps \in {list_after(decoded, mid, "pack_temp_sensor_count", TRUE, 10)} }) :
    mid   \in {run_after(decoded, cells, BlockTemps)} }) :
    cells \in {list_after(decoded, head, "cell_count", FALSE, 1000)} }) :
    head  \in {run_after(decoded, Cursor(TRUE, NoFields, pos), BlockHead)} })

\* A faulty numbering that takes the caller's battery_num, against which
\* the adjustment of the wire number is tested.
loop_battery_num(battery_data, battery_num) == battery_num

\* adjusted_battery_num: the parsed (0-based) number plus one.
adjusted_battery_num(battery_data, battery_num) == battery_data["number"] + 1

\* _transform_battery_data: the parsed number plus one, the list lengths,
\* and the status / protection groups.
transform_battery_data(battery_data, battery_num) ==
     [number               |-> adjusted_battery_num(battery_data, battery_num),
      soc                  |-> battery_data["soc"],
      voltage              |-> battery_data["voltage"],
      cell_count           |-> Len(battery_data["cells"]),
      cell_voltages        |-> battery_data["cells"],
      temp_count           |-> battery_data["pack_temp_sensor_count"],
      temperatures         |-> battery_data["pack_temperatures"],
      ambient_temperature  |-> battery_data["ambient_temperature"],
      pack_avg_temperature |-> battery_data["pack_avg_temperature"],
      mos_temperature      |-> battery_data["mos_temperature"],
      current              |-> battery_data["current"],
      internal_resistance  |-> battery_data["internal_resistance"],
      soh                  |-> battery_data["soh"],
      user_defined         |-> battery_data["user_defined"],
      full_capacity        |-> battery_data["full_charge_capacity"],
      remaining_capacity   |-> battery_data["remaining_capacity"],
      cycle_count          |-> battery_data["cycle_count"],
      max_cell_voltage     |-> battery_data["max_cell_voltage"],
      min_cell_voltage     |-> battery_data["min_cell_voltage"],
      average_cell_voltage |-> battery_data["average_cell_voltage"],
      total_charge         |-> battery_data["total_charge"],
      total_discharge      |-> battery_data["total_discharge"],
      max_cell_temp        |-> battery_data["max_cell_temp"],
      min_cell_temp        |-> battery_data["min_cell_temp"],
      unknown_3            |-> battery_data["unknown_3"],
      unknown_4            |-> battery_data["unknown_4"],
      avg_cell_temp        |-> battery_data["avg_cell_temp"],
      status     |-> [voltage     |-> battery_data["voltage_status"],
                      current     |-> battery_data["current_status"],
                      temperature |-> battery_data["temperature_status"],
                      alarm       |-> battery_data["alarm_status"],
                      fet         |-> battery_data["fet_status"]],
      protection |-> [overvoltage_protect  |-> battery_data["overvoltage_protect"],
                      undervoltage_protect |-> battery_data["undervoltage_protect"],
                      overvoltage_alarm    |-> battery_data["overvoltage_alarm"],
                      undervoltage_alarm   |-> battery_data["undervoltage_alarm"],
                      balance_status       |-> battery_data["balance_status"]]]

(***************************************************************************)
(* Snapshot assembly (the synchronous tail of _async_update_data)          *)
(***************************************************************************)
\* bytes.decode('ascii', errors='ignore'): bytes of 128 and above are dropped.
RECURSIVE DecodeRange(_, _, _)
DecodeRange(s, lo, hi) ==
  IF lo > hi THEN ""
  ELSE IF lo = hi THEN (IF Ord(Char(s, lo)) < 128 THEN Char(s, lo) ELSE "")
  ELSE Only({ DecodeRange(s, lo, mid) \o DecodeRange(s, mid + 1, hi) :
                mid \in {(lo + hi) \div 2} })
DecodeIgnore(s) == Only({ DecodeRange(v, 1, Len(v)) : v \in {s} })

\* The snapshot (self.data): the raw header and the group view, each absent
\* (<<>>) or present (<<v>>), and the entries under integer keys.
NoBatteries == [k \in {} |-> 0]
EmptySnapshot == [raw_system |-> <<>>, group |-> <<>>, batteries |-> NoBatteries]

RECURSIVE parse_batteries(_, _, _, _, _)
RECURSIVE parse_calls(_, _, _, _)

\* A faulty loop that gives up the batteries at the first block that raises,
\* against which the isolation of a failure is tested.
parse_batteries_strict(decoded, pos, i, battery_count, batteries) ==
  IF i >= battery_count THEN batteries
  ELSE Only({
         IF r.ok
         THEN parse_batteries(decoded, r.pos, i + 1, battery_count,
                ((i + 1) :> transform_battery_data(r.battery, i + 1)) @@ batteries)
         ELSE NoBatteries :
         r \in {parse_battery_block(decoded, pos)} })

\* A faulty loop that stores the batteries under the loop index i, against
\* which the range of the keys is tested.
parse_batteries_zero_based(decoded, pos, i, battery_count, batteries) ==
  IF i >= battery_count THEN batteries
  ELSE Only({ Only({
         IF r.ok THEN parse_batteries(decoded, r.pos, i + 1, battery_count, stored)
         ELSE parse_batteries(decoded, pos, i + 1, battery_count, batteries) :
         stored \in {IF r.ok
                     THEN (i :> transform_battery_data(r.battery, i + 1)) @@ batteries
                     ELSE batteries} }) :
         r \in {parse_battery_block(decoded, pos)} })

\* A faulty loop that steps over a block that raised (by the length of a
\* block of 2 cells and 1 sensor), against which the reuse of the cursor is
\* tested.
parse_batteries_skipping(decoded, pos, i, battery_count, batteries) ==
  IF i >= battery_count THEN batteries
  ELSE Only({ Only({
         IF r.ok THEN parse_batteries(decoded, r.pos, i + 1, battery_count, stored)
         ELSE parse_batteries(decoded, pos + 144, i + 1, battery_count, batteries) :
         stored \in {IF r.ok
                     THEN ((i + 1) :> transform_battery_data(r.battery, i + 1)) @@ batteries
                     ELSE batteries} }) :
         r \in {parse_battery_block(decoded, pos)} })

\* for i in range(battery_count): parse a block at pos; on success store it
\* under i + 1 and move pos; on failure log and continue with pos unchanged.
parse_batteries(decoded, pos, i, battery_count, batteries) ==
  IF i >= battery_count THEN batteries
  ELSE Only({ Only({
         IF r.ok THEN parse_batteries(decoded, r.pos, i + 1, battery_count, stored)
         ELSE parse_batteries(decoded, pos, i + 1, battery_count, batteries) :
         stored \in {IF r.ok
                     THEN ((i + 1) :> transform_battery_data(r.battery, i + 1)) @@ batteries
                     ELSE batteries} }) :
         r \in {parse_battery_block(decoded, pos)} })

\* A faulty loop that stops at the first block that raises, against which
\* the number of parser calls is tested.
parse_calls_break(decoded, pos, i, battery_count) ==
  IF i >= battery_count THEN <<>>
  ELSE Only({ <<[start |-> pos, ok |-> r.ok, next |-> r.pos]>>
                \o (IF r.ok THEN parse_calls(decoded, r.pos, i + 1, battery_count)
                    ELSE <<>>) :
              r \in {parse_battery_block(decoded, pos)} })

\* The calls of _parse_battery_block the loop of lines 815-822 makes, in
\* order: the offset each was given, whether it returned, and the offset it
\* returned (pos is assigned only then).
parse_calls(decoded, pos, i, battery_count) ==
  IF i >= battery_count THEN <<>>
  ELSE Only({ <<[start |-> pos, ok |-> r.ok, next |-> r.pos]>>
                \o parse_calls(decoded, IF r.ok THEN r.pos ELSE pos, i + 1,
                               battery_count) :
              r \in {parse_battery_block(decoded, pos)} })

\* Lines 797-828: self.data is cleared, then filled from the response.
\* kind "ok": the header parsed; "header_failed": it raised.
assemble(response) ==
  Only({ Only({
    IF ~h.ok THEN [kind |-> "header_failed", data |-> EmptySnapshot, calls |-> <<>>]
    ELSE [kind |-> "ok",
          calls |-> parse_calls(decoded, h.pos, 0, h.header.battery_count),
          data |-> [raw_system |-> <<h.header>>,
                    group      |-> <<transform_group_data(h.header)>>,
                    batteries  |-> parse_batteries(decoded, h.pos, 0,
                                                   h.header.battery_count, NoBatteries)]] :
    h \in {parse_header_block(decoded, 12)} }) :
    decoded \in {DecodeIgnore(StripEnds(response))} })

(***************************************************************************)
(* Frames the line can deliver                                             *)
(***************************************************************************)
\* analog reply, 2 batteries of 2 cells and 1 sensor each (372 bytes)
FrameTwo ==
  "~" \o "22004A00D12E" \o "15A5" \o "0000" \o "01A4" \o "01A4"
    \o "0064" \o "00A0" \o "0096" \o "0E2A" \o "0D1A" \o "0082" \o "0050"
    \o "000000000000000000" \o "02" \o "02" \o "0000" \o "63" \o "14C8"
    \o "02" \o "0CE4" \o "0CE5" \o "00D7" \o "00DC" \o "FFF1" \o "01"
    \o "00C8" \o "FF6A" \o "000C" \o "0062" \o "01" \o "2710" \o "26AC"
    \o "0025" \o "0CF3" \o "0CE4" \o "00E1" \o "FFEC" \o "0003" \o "0004"
    \o "00D2" \o "0CEB" \o "01F4" \o "01E0" \o "0001" \o "0002" \o "0004"
    \o "0008" \o "0003" \o "0000" \o "0000" \o "0010" \o "0020" \o "0005"
    \o "0100" \o "50" \o "14C8" \o "02" \o "0CE4" \o "0CE5" \o "00D7"
    \o "00DC" \o "FFF1" \o "01" \o "00C8" \o "00FA" \o "000C" \o "0062"
    \o "01" \o "2710" \o "26AC" \o "0025" \o "0CF3" \o "0CE4" \o "00E1"
    \o "FFEC" \o "0003" \o "0004" \o "00D2" \o "0CEB" \o "01F4" \o "01E0"
    \o "0001" \o "0002" \o "0004" \o "0008" \o "0003" \o "0000" \o "0000"
    \o "0010" \o "0020" \o "0005" \o "B41D" \o "\r"
\* analog reply, 1 battery of the nominal layout (16 cells, 4 sensors) (296 bytes)
FrameOne ==
  "~" \o "22004A00E116" \o "14B4" \o "FFF4" \o "01A4" \o "0190"
    \o "005F" \o "00A0" \o "0096" \o "0E2A" \o "0D1A" \o "0082" \o "0050"
    \o "000000000000000000" \o "10" \o "01" \o "0000" \o "5F" \o "14C8"
    \o "10" \o "0CE4" \o "0CE5" \o "0CE6" \o "0CE7" \o "0CE8" \o "0CE9"
    \o "0CEA" \o "0CEB" \o "0CEC" \o "0CED" \o "0CEE" \o "0CEF" \o "0CF0"
    \o "0CF1" \o "0CF2" \o "0CF3" \o "00D7" \o "00DC" \o "FFF1" \o "04"
    \o "00C8" \o "00C9" \o "00CA" \o "00CB" \o "FF6A" \o "000C" \o "0062"
    \o "01" \o "2710" \o "26AC" \o "0025" \o "0CF3" \o "0CE4" \o "00E1"
    \o "FFEC" \o "0003" \o "0004" \o "00D2" \o "0CEB" \o "01F4" \o "01E0"
    \o "0001" \o "0002" \o "0004" \o "0008" \o "0003" \o "0000" \o "0000"
    \o "0010" \o "0020" \o "0005" \o "C1E4" \o "\r"
\* analog reply announcing 2 batteries and carrying 1 block (228 bytes)
FrameTrunc ==
  "~" \o "22004A00409E" \o "15A5" \o "0000" \o "01A4" \o "01A4"
    \o "0032" \o "00A0" \o "0096" \o "0E2A" \o "0D1A" \o "0082" \o "0050"
    \o "000000000000000000" \o "02" \o "02" \o "0000" \o "32" \o "14C8"
    \o "02" \o "0CE4" \o "0CE5" \o "00D7" \o "00DC" \o "FFF1" \o "01"
    \o "00C8" \o "FF6A" \o "000C" \o "0062" \o "01" \o "2710" \o "26AC"
    \o "0025" \o "0CF3" \o "0CE4" \o "00E1" \o "FFEC" \o "0003" \o "0004"
    \o "00D2" \o "0CEB" \o "01F4" \o "01E0" \o "0001" \o "0002" \o "0004"
    \o "0008" \o "0003" \o "0000" \o "0000" \o "0010" \o "0020" \o "0005"
    \o "D236" \o "\r"
\* 30-byte reply with return code 00: too short for the header (30 bytes)
FrameNoHeader ==
  "~" \o "22004A00A00C" \o "15A5" \o "0000" \o "01A4" \o "FB11" \o "\r"
\* 20-byte poll of another controller on the line (20 bytes)
FramePoll ==
  "~" \o "22004A42E002" \o "FF" \o "FCFE" \o "\r"
\* 18-byte reply with return code 00 and no INFO (18 bytes)
FrameVersion ==
  "~" \o "22004A000000" \o "FDA7" \o "\r"
\* 30-byte reply whose checksum is off by one (30 bytes)
FrameBadSum ==
  "~" \o "22004A00A00C" \o "15A5" \o "0000" \o "01A4" \o "FB12" \o "\r"
\* 30-byte reply with return code 02 (CHKSUM error) (30 bytes)
FrameRtn02 ==
  "~" \o "22004A02A00C" \o "15A5" \o "0000" \o "01A4" \o "FB0F" \o "\r"
\* 30-byte frame with the unlisted return code 42 (30 bytes)
FrameRtn42 ==
  "~" \o "22004A42A00C" \o "15A5" \o "0000" \o "01A4" \o "FB0B" \o "\r"
\* 30-byte reply whose first byte is not SOI (30 bytes)
FrameNoSoi ==
  "G" \o "22004A00A00C" \o "15A5" \o "0000" \o "01A4" \o "FB11" \o "\r"
\* empty body with trailer 0000 (6 bytes)
FrameZero ==
  "~" \o "0000" \o "\r"
\* 30-byte reply holding the byte 0xFF (30 bytes)
FrameNonAscii ==
  "~" \o "22004A00A00C" \o "15A5" \o "!000" \o "01A4" \o "FB20" \o "\r"

(***************************************************************************)
(* The coordinator, its invocations, the transport and the clock           *)
(***************************************************************************)
\* Chunks the reader may hold at once.
MaxRx == 1

Polls == {"poll1", "poll2"}
Procs == Polls \cup {"ver"}

\* Frames the line delivers while several invocations run.
CoreFrames == {FrameOne, FrameNoHeader, FramePoll, FrameVersion}
\* 30-byte reply with return code 00 and a space after SOI (30 bytes)
FrameSpaced ==
  "~" \o " 2004A00A00C" \o "15A5" \o "0000" \o "01A4" \o "FB23" \o "\r"

\* Every frame above.
AllFrames ==
  {FrameTwo, FrameOne, FrameTrunc, FrameNoHeader, FramePoll, FrameVersion,
   FrameBadSum, FrameRtn02, FrameRtn42, FrameNoSoi, FrameZero, FrameNonAscii,
   FrameSpaced}

\* version = response.decode("ascii", errors="ignore")[1:].strip()[0:2]
version_of(response) ==
  Only({ PySlice(RStrip(LStrip(PySlice(d, 1, Len(d)))), 0, 2) :
         d \in {DecodeIgnore(response)} })

\* The operators applied to the frames of the line and to the two commands,
\* tabulated once.
Decoded    == [f \in AllFrames |-> decode_frame(f, "RX")]
Accepted   == [f \in AllFrames |-> accepts(f)]
Assembled  == [f \in AllFrames |-> assemble(f)]
Versions   == [f \in AllFrames |-> version_of(f)]
Verified   == [f \in AllFrames |-> verify_checksum(f)]
AnalogQuery  == build_command("42", None, None, DefaultGroup)
VersionQuery == build_command("4F", Some(0), None, DefaultGroup)

\* Group numbers (0 for a single group, 1-7 for multi-group) and battery
\* positions (up to 13) an address is computed from.
MaxGroup == 7
MaxPosition == 13
Groups == 0..MaxGroup
Positions == {None} \cup {Some(n) : n \in 0..MaxPosition}

\* Command codes: two hex digits.
HexDigits ==
  {"0", "1", "2", "3", "4", "5", "6", "7", "8", "9", "A", "B", "C", "D", "E", "F"}
Commands == {a \o b : a \in HexDigits, b \in HexDigits}

\* info_byte arguments: absent, or two hex digits.
InfoBytes == {None, Some("01")}

VARIABLES
  pc,                \* where each invocation is suspended: "idle" (not running),
                     \* "lock" (async with self._lock), "drain", "sleep", "read"
  lock,              \* the holder of self._lock: <<>> or <<p>>
  waiters,           \* invocations queued at self._lock, in order
  data,              \* self.data, the snapshot
  protocol_version,  \* self.protocol_version: <<>> (None) or <<version>>
  rx,                \* complete chunks (up to "\r") buffered in self._reader
  waiter,            \* the invocation whose readuntil waits for data: <<>> or <<p>>
  tx,                \* the last command frame written to self._writer
  clk,               \* ticks since each invocation's current sleep / read began
  deadline,          \* ticks after which its sleep ends / its read times out
  discarded,         \* whether its current read has dropped a candidate
  last,              \* the invocation that returned last and how (before: the
                     \* battery keys of the snapshot it found)
  codec,             \* a direct call of _build_command / _verify_checksum
  parse,             \* a direct call of convert_signed or of a block parser
  writes,            \* calls of self._writer.write by each invocation (its
                     \* current one, or its last one once it has returned)
  dropped,           \* the length of the candidate its current read dropped
                     \* last (0: none)
  since,             \* tenths of a second since the last command was written,
                     \* counted up to the length of the delay (no command
                     \* yet: the length of the delay)
  stale              \* how many chunks at the head of rx were buffered before
                     \* the invocation wrote its command (0 when not running)

vars == <<pc, lock, waiters, data, protocol_version, rx, waiter, tx, clk,
          deadline, discarded, last, codec, parse, writes, dropped, since,
          stale>>

NoLast ==
  [proc |-> "", kind |-> "", sent |-> "", frame |-> "", discarded |-> FALSE,
   before |-> {}]

CodecIdle ==
  [op |-> "idle", built |-> FALSE, args |-> <<>>, info_byte |-> None,
   address |-> None, frame |-> "",
   checksum |-> None, expected |-> None, calculated |-> None, result |-> FALSE]

ParseIdle == [op |-> "idle", input |-> <<>>, result |-> <<>>, record |-> <<>>]

Init ==
  /\ pc = [p \in Procs |-> "idle"]
  /\ lock = <<>>
  /\ waiters = <<>>
  /\ data = EmptySnapshot
  /\ protocol_version = <<>>
  /\ rx = <<>>
  /\ waiter = <<>>
  /\ tx = ""
  /\ clk = [p \in Procs |-> 0]
  /\ deadline = [p \in Procs |-> 0]
  /\ discarded = [p \in Procs |-> FALSE]
  /\ last = NoLast
  /\ codec = CodecIdle
  /\ parse = ParseIdle
  /\ writes = [p \in Procs |-> 0]
  /\ dropped = [p \in Procs |-> 0]
  /\ since = SleepTicks
  /\ stale = [p \in Procs |-> 0]

\* A faulty except clause that raises again, against which the no-raise
\* property is tested.
send_command_reraise == "raised"

\* except Exception of _send_command (lines 781-783): log, return None.
send_command_except == "none"
\* except asyncio.TimeoutError of _read_response (lines 384-386): return None.
read_response_timeout == "none"
\* except Exception of _read_response (lines 387-389): log, return None.
read_response_except == "none"

\* What _send_command returns when _read_response ended with outcome r
\* ("frame", "none", or "raised" when an exception left _read_response).
send_result(r) == IF r = "raised" THEN send_command_except ELSE r

\* One pass of the while loop of _read_response over the buffered chunks:
\* readuntil returns the next chunk without suspending while one is buffered.
\* "frame": the chunk passed the gates and is returned; "wait": the buffer is
\* used up and readuntil suspends; else the outcome of the except clause.
\* skipped: a chunk was dropped on the way (continue).
RECURSIVE read_loop(_, _)
read_loop(buf, skipped) ==
  IF buf = <<>>
  THEN [outcome |-> "wait", frame |-> "", rest |-> <<>>, skipped |-> skipped]
  ELSE IF Decoded[Head(buf)] = "raised"
  THEN [outcome |-> read_response_except, frame |-> "", rest |-> Tail(buf),
        skipped |-> skipped]
  ELSE IF Accepted[Head(buf)]
  THEN [outcome |-> "frame", frame |-> Head(buf), rest |-> Tail(buf),
        skipped |-> skipped]
  ELSE read_loop(Tail(buf), TRUE)

\* A faulty cycle that leaves without releasing the lock, against which the
\* progress of a queued invocation is tested.
ReleaseForgotten == UNCHANGED <<lock, waiters>>

\* async with self._lock, on exit: the lock passes to the first waiter.
Release ==
  /\ lock' = IF waiters = <<>> THEN <<>> ELSE <<Head(waiters)>>
  /\ waiters' = IF waiters = <<>> THEN <<>> ELSE Tail(waiters)

\* A faulty no-response path that clears the snapshot first, against which
\* the retention of the snapshot is tested.
cleared_data(snapshot) == EmptySnapshot

\* if not response: return self.data (lines 793-795) -- the snapshot as it is.
no_response_data(snapshot) == snapshot

\* A faulty cycle that fills the snapshot from the response without clearing
\* it first, against which the replacement of the snapshot is tested.
PollReturnMerges(p, sent, frame) ==
  /\ pc' = [pc EXCEPT ![p] = "idle"]
  /\ Release
  /\ IF sent = "frame"
     THEN \E r \in {Assembled[frame]} :
            /\ data' = IF r.kind = "ok"
                       THEN [r.data EXCEPT !.batteries = @ @@ data.batteries]
                       ELSE r.data
            /\ last' = [proc |-> p, kind |-> r.kind, sent |-> sent, frame |-> frame,
                        discarded |-> discarded'[p], before |-> DOMAIN data.batteries]
     ELSE /\ data' = no_response_data(data)
          /\ last' = [proc |-> p, sent |-> sent, frame |-> "",
                      kind |-> IF sent = "none" THEN "no_response" ELSE "update_error",
                      discarded |-> discarded'[p], before |-> DOMAIN data.batteries]
  /\ UNCHANGED protocol_version

\* The rest of _async_update_data once _send_command has returned (lines
\* 793-832): with no response the snapshot is returned as it is, else it is
\* cleared and rebuilt.  The lock is released on the way out.
PollReturn(p, sent, frame) ==
  /\ pc' = [pc EXCEPT ![p] = "idle"]
  /\ Release
  /\ IF sent = "frame"
     THEN \E r \in {Assembled[frame]} :
            /\ data' = r.data
            /\ last' = [proc |-> p, kind |-> r.kind, sent |-> sent, frame |-> frame,
                        discarded |-> discarded'[p], before |-> DOMAIN data.batteries]
     ELSE /\ data' = no_response_data(data)
          /\ last' = [proc |-> p, sent |-> sent, frame |-> "",
                      kind |-> IF sent = "none" THEN "no_response" ELSE "update_error",
                      discarded |-> discarded'[p], before |-> DOMAIN data.batteries]
  /\ UNCHANGED protocol_version

\* A faulty version query that forgets the stored version when it gets no
\* response, against which the retention of the stored version is tested.
VersionReturnForgets(p, sent, frame) ==
  /\ pc' = [pc EXCEPT ![p] = "idle"]
  /\ protocol_version' = IF sent = "frame" THEN <<Versions[frame]>> ELSE <<>>
  /\ last' = [proc |-> p, kind |-> IF sent = "frame" THEN "version" ELSE "raised",
              sent |-> sent, frame |-> IF sent = "frame" THEN frame ELSE "",
              discarded |-> discarded'[p], before |-> DOMAIN data.batteries]
  /\ UNCHANGED <<data, lock, waiters>>

\* The rest of async_get_protocol_version (lines 958-972): no response raises
\* ValueError, which is logged and raised again.
VersionReturn(p, sent, frame) ==
  /\ pc' = [pc EXCEPT ![p] = "idle"]
  /\ IF sent = "frame"
     THEN /\ protocol_version' = <<Versions[frame]>>
          /\ last' = [proc |-> p, kind |-> "version", sent |-> sent, frame |-> frame,
                      discarded |-> discarded'[p], before |-> DOMAIN data.batteries]
     ELSE /\ protocol_version' = protocol_version
          /\ last' = [proc |-> p, kind |-> "raised", sent |-> sent, frame |-> "",
                      discarded |-> discarded'[p], before |-> DOMAIN data.batteries]
  /\ UNCHANGED <<data, lock, waiters>>

\* _send_command has returned to its caller.
Return(p, sent, frame) ==
  IF p \in Polls THEN PollReturn(p, sent, frame) ELSE VersionReturn(p, sent, frame)

\* _send_command up to its first suspension: the built command is written,
\* then await drain.  write may raise, which ends the call in the except clause.
\* A poll cycle holds the lock from here on.
Send(p, command) ==
  /\ discarded' = [discarded EXCEPT ![p] = FALSE]
  /\ dropped' = [dropped EXCEPT ![p] = 0]
  /\ writes' = [writes EXCEPT ![p] = IF pc[p] = "idle" THEN 1 ELSE @ + 1]
  /\ \/ /\ tx' = command
        /\ since' = 0
        /\ stale' = [stale EXCEPT ![p] = Len(rx)]
        /\ pc' = [pc EXCEPT ![p] = "drain"]
        /\ lock' = IF p \in Polls THEN <<p>> ELSE lock
        /\ UNCHANGED <<waiters, data, protocol_version, last>>
     \/ /\ tx' = tx
        /\ since' = since
        /\ stale' = [stale EXCEPT ![p] = 0]
        /\ Return(p, send_command_except, "")

\* A faulty guard that never blocks, against which the serialisation of the
\* poll cycles is tested.
LockIgnored == TRUE

\* self._lock is free for a newcomer (asyncio.Lock.acquire without waiting).
LockFree == lock = <<>> /\ waiters = <<>>

\* The invocation is between writing its command and the end of its
\* read-response (lines 768-774 of _send_command).
InFlight(p) == pc[p] \in {"drain", "sleep", "read"}

\* _async_update_data is invoked: it takes the lock if it is free and sends
\* the analog query, else it queues at the lock.
PollInvoke(p) ==
  /\ pc[p] = "idle"
  /\ IF LockFree
     THEN Send(p, AnalogQuery)
     ELSE /\ pc' = [pc EXCEPT ![p] = "lock"]
          /\ waiters' = Append(waiters, p)
          /\ writes' = [writes EXCEPT ![p] = 0]
          /\ UNCHANGED <<lock, tx, data, protocol_version, discarded, last, dropped,
                       since, stale>>
  /\ UNCHANGED <<rx, waiter, clk, deadline, codec, parse>>

\* The lock was passed to a queued invocation: it goes on to send.
PollResume(p) ==
  /\ pc[p] = "lock"
  /\ lock = <<p>>
  /\ Send(p, AnalogQuery)
  /\ UNCHANGED <<rx, waiter, clk, deadline, codec, parse>>

\* async_get_protocol_version is invoked: it sends "4F" to battery 0 without
\* taking the lock.
VersionInvoke(p) ==
  /\ pc[p] = "idle"
  /\ Send(p, VersionQuery)
  /\ UNCHANGED <<rx, waiter, clk, deadline, codec, parse>>

\* A faulty cycle that clears the snapshot before it has a response, against
\* which the steadiness of the snapshot during a cycle is tested.
DrainDoneClears(p) ==
  /\ pc[p] = "drain"
  /\ pc' = [pc EXCEPT ![p] = "sleep"]
  /\ clk' = [clk EXCEPT ![p] = 0]
  /\ deadline' = [deadline EXCEPT ![p] = SleepTicks]
  /\ data' = IF p \in Polls THEN EmptySnapshot ELSE data
  /\ UNCHANGED <<lock, waiters, protocol_version, rx, waiter, tx,
                 discarded, last, codec, parse, writes, dropped, since,
                 stale>>

\* await self._writer.drain() completes: asyncio.sleep(0.9) starts.
DrainDone(p) ==
  /\ pc[p] = "drain"
  /\ pc' = [pc EXCEPT ![p] = "sleep"]
  /\ clk' = [clk EXCEPT ![p] = 0]
  /\ deadline' = [deadline EXCEPT ![p] = SleepTicks]
  /\ UNCHANGED <<lock, waiters, data, protocol_version, rx, waiter, tx,
                 discarded, last, codec, parse, writes, dropped, since,
                 stale>>

\* await self._writer.drain() raises.
DrainError(p) ==
  /\ pc[p] = "drain"
  /\ UNCHANGED discarded
  /\ Return(p, send_command_except, "")
  /\ stale' = [stale EXCEPT ![p] = 0]
  /\ UNCHANGED <<rx, waiter, tx, clk, deadline, codec, parse, writes, dropped,
                 since>>

\* A faulty loop that starts a new timeout for every candidate, against which
\* the bound on the read is tested.
rearmed_deadline(c, d) == c + TimeoutTicks

\* async with asyncio.timeout(timeout) encloses the while loop (lines
\* 355-356): after a rejected candidate at clock c the deadline is still d.
deadline_after_reject(c, d) == d

\* Of n chunks at the head of the buffer, how many are left at its head once
\* taken chunks have been read off it.
left_before(n, taken) == IF n > taken THEN n - taken ELSE 0

\* The loop of _read_response runs over what is buffered, at clock c of a
\* read whose deadline is d.  It returns a frame, ends in the except clause,
\* or suspends in readuntil; readuntil raises RuntimeError when another
\* coroutine is already waiting on the reader.
ReadRun(p, c, d) ==
  \E r \in {read_loop(rx, FALSE)} :
    /\ rx' = r.rest
    /\ stale' = [q \in Procs |->
                   IF q = p /\ ~(r.outcome = "wait" /\ waiter = <<>>)
                   THEN 0
                   ELSE left_before(stale[q], Len(rx) - Len(r.rest))]
    /\ discarded' = [discarded EXCEPT ![p] = @ \/ r.skipped]
    /\ dropped' = [dropped EXCEPT ![p] =
                     IF r.outcome = "wait" /\ waiter = <<>>
                     THEN (IF r.skipped THEN Len(rx[Len(rx)]) ELSE @)
                     ELSE 0]
    /\ IF r.outcome = "wait" /\ waiter = <<>>
       THEN /\ waiter' = <<p>>
            /\ pc' = [pc EXCEPT ![p] = "read"]
            /\ clk' = [clk EXCEPT ![p] = c]
            /\ deadline' = [deadline EXCEPT ![p] =
                              IF r.skipped THEN deadline_after_reject(c, d) ELSE d]
            /\ UNCHANGED <<lock, waiters, data, protocol_version, last>>
       ELSE /\ waiter' = waiter
            /\ clk' = [clk EXCEPT ![p] = 0]
            /\ deadline' = [deadline EXCEPT ![p] = 0]
            /\ IF r.outcome = "wait"
               THEN Return(p, send_result(read_response_except), "")
               ELSE Return(p, send_result(r.outcome), r.frame)
    /\ UNCHANGED <<tx, codec, parse, writes, since>>

\* A faulty _send_command that reads without waiting out the delay, against
\* which the order of its steps is tested.
SleepSkipped(p) ==
  /\ pc[p] = "sleep"
  /\ ReadRun(p, 0, TimeoutTicks)

\* asyncio.sleep(0.9) is over: _read_response starts its timeout and its loop.
SleepDone(p) ==
  /\ pc[p] = "sleep"
  /\ clk[p] >= deadline[p]
  /\ ReadRun(p, 0, TimeoutTicks)

\* Data arrived and woke the invocation suspended in readuntil.
ReadWake(p) ==
  /\ pc[p] = "read"
  /\ waiter # <<p>>
  /\ ReadRun(p, clk[p], deadline[p])

\* A faulty _send_command that writes its command again when the read timed
\* out, against which the absence of a retry is tested.
ReadTimeoutRetry(p) ==
  /\ pc[p] = "read"
  /\ clk[p] >= deadline[p]
  /\ waiter' = IF waiter = <<p>> THEN <<>> ELSE waiter
  /\ clk' = [clk EXCEPT ![p] = 0]
  /\ deadline' = [deadline EXCEPT ![p] = 0]
  /\ dropped' = [dropped EXCEPT ![p] = 0]
  /\ writes' = [writes EXCEPT ![p] = @ + 1]
  /\ since' = 0
  /\ stale' = [stale EXCEPT ![p] = Len(rx)]
  /\ pc' = [pc EXCEPT ![p] = "drain"]
  /\ UNCHANGED <<lock, waiters, data, protocol_version, rx, tx, discarded, last,
                 codec, parse>>

\* The timeout expires while readuntil is suspended: TimeoutError.
ReadTimeout(p) ==
  /\ pc[p] = "read"
  /\ clk[p] >= deadline[p]
  /\ waiter' = IF waiter = <<p>> THEN <<>> ELSE waiter
  /\ clk' = [clk EXCEPT ![p] = 0]
  /\ deadline' = [deadline EXCEPT ![p] = 0]
  /\ UNCHANGED discarded
  /\ dropped' = [dropped EXCEPT ![p] = 0]
  /\ Return(p, send_result(read_response_timeout), "")
  /\ stale' = [stale EXCEPT ![p] = 0]
  /\ UNCHANGED <<rx, tx, codec, parse, writes, since>>

\* readuntil raises while suspended (end of stream, serial error).
ReadError(p) ==
  /\ pc[p] = "read"
  /\ waiter' = IF waiter = <<p>> THEN <<>> ELSE waiter
  /\ clk' = [clk EXCEPT ![p] = 0]
  /\ deadline' = [deadline EXCEPT ![p] = 0]
  /\ UNCHANGED discarded
  /\ dropped' = [dropped EXCEPT ![p] = 0]
  /\ Return(p, send_result(read_response_except), "")
  /\ stale' = [stale EXCEPT ![p] = 0]
  /\ UNCHANGED <<rx, tx, codec, parse, writes, since>>

\* The line delivers a chunk ending in "\r": it is buffered and the waiting
\* readuntil, if any, is woken.
Deliver(f) ==
  /\ Len(rx) < MaxRx
  /\ rx' = Append(rx, f)
  /\ waiter' = <<>>
  /\ UNCHANGED <<pc, lock, waiters, data, protocol_version, tx, clk, deadline,
                 discarded, last, codec, parse, writes, dropped, since,
                 stale>>

Timed(p) == pc[p] \in {"sleep", "read"}

\* A tenth of a second passes; a timer that is due fires first.
Tick ==
  /\ \E p \in Procs : Timed(p)
  /\ \A p \in Procs : Timed(p) => clk[p] < deadline[p]
  /\ clk' = [p \in Procs |-> IF Timed(p) THEN clk[p] + 1 ELSE clk[p]]
  /\ since' = IF since < SleepTicks THEN since + 1 ELSE since
  /\ UNCHANGED <<pc, lock, waiters, data, protocol_version, rx, waiter, tx,
                 deadline, discarded, last, codec, parse, writes, dropped,
                 stale>>

\* Two poll invocations (the update timer and a manual refresh) share the
\* coordinator.
Next ==
  \/ \E p \in Polls : PollInvoke(p)
  \/ \E p \in Polls : PollResume(p)
  \/ \E p \in Polls : DrainDone(p)
  \/ \E p \in Polls : DrainError(p)
  \/ \E p \in Polls : SleepDone(p)
  \/ \E p \in Polls : ReadWake(p)
  \/ \E p \in Polls : ReadTimeout(p)
  \/ \E p \in Polls : ReadError(p)
  \/ \E f \in CoreFrames : Deliver(f)
  \/ Tick

Spec == Init /\ [][Next]_vars

\* A poll invocation and a protocol-version query share the coordinator.
Queriers == {"poll1", "ver"}
\* The line carries an analog reply or a reply with a space after SOI.
ReplyFrames == {FrameOne, FrameSpaced}

NextVersion ==
  \/ PollInvoke("poll1")
  \/ VersionInvoke("ver")
  \/ \E p \in Queriers : DrainDone(p)
  \/ \E p \in Queriers : DrainError(p)
  \/ \E p \in Queriers : SleepDone(p)
  \/ \E p \in Queriers : ReadWake(p)
  \/ \E p \in Queriers : ReadTimeout(p)
  \/ \E p \in Queriers : ReadError(p)
  \/ \E f \in ReplyFrames : Deliver(f)
  \/ Tick

SpecVersion == Init /\ [][NextVersion]_vars

\* One poll invocation at a time, every frame of AllFrames on the line.
NextCycle ==
  \/ PollInvoke("poll1")
  \/ DrainDone("poll1")
  \/ DrainError("poll1")
  \/ SleepDone("poll1")
  \/ ReadWake("poll1")
  \/ ReadTimeout("poll1")
  \/ ReadError("poll1")
  \/ \E f \in AllFrames : Deliver(f)
  \/ Tick

SpecCycle == Init /\ [][NextCycle]_vars

\* A protocol-version query alone; the line carries the 18-byte reply with
\* an empty INFO field, the reply with a space after SOI, or an analog reply.
VersionReplies == {FrameVersion, FrameSpaced, FrameOne}

NextQuery ==
  \/ VersionInvoke("ver")
  \/ DrainDone("ver")
  \/ DrainError("ver")
  \/ SleepDone("ver")
  \/ ReadWake("ver")
  \/ ReadTimeout("ver")
  \/ ReadError("ver")
  \/ \E f \in VersionReplies : Deliver(f)
  \/ Tick

SpecQuery == Init /\ [][NextQuery]_vars

\* The two poll invocations under the scheduling the event loop gives them:
\* time passes, a flush that can complete completes, a timer that is due
\* fires (the delay and the read timeout), and an invocation that was handed
\* the lock resumes.
Fairness ==
  /\ WF_vars(Tick)
  /\ \A p \in Polls :
       /\ WF_vars(PollResume(p))
       /\ WF_vars(DrainDone(p))
       /\ WF_vars(SleepDone(p))
       /\ WF_vars(ReadTimeout(p))

SpecLive == Spec /\ Fairness

(***************************************************************************)
(* The codec called directly                                               *)
(***************************************************************************)
machine == <<pc, lock, waiters, data, protocol_version, rx, waiter, tx, clk,
             deadline, discarded, last,
             writes, dropped, since, stale>>

\* _build_command(command, battery_number, info_byte) on a coordinator of
\* some group.
BuildCommand ==
  /\ codec.op = "idle"
  /\ \E command \in Commands, battery_number \in Positions,
        info_byte \in InfoBytes, group_number \in Groups :
       codec' = [op        |-> "frame",
                 built     |-> TRUE,
                 args      |-> <<command, battery_number, group_number>>,
                 info_byte |-> info_byte,
                 address   |-> Some(calculate_address(battery_number, group_number)),
                 frame     |-> build_command(command, battery_number, info_byte,
                                             group_number),
                 checksum  |-> Some(build_checksum(command, battery_number, info_byte,
                                                   group_number)),
                 expected |-> None,
                 calculated |-> None,
                 result   |-> FALSE]
  /\ UNCHANGED <<machine, parse>>

\* A frame from the line is about to be verified.
TakeFrame ==
  /\ codec.op = "idle"
  /\ \E f \in AllFrames : codec' = [CodecIdle EXCEPT !.op = "frame", !.frame = f]
  /\ UNCHANGED <<machine, parse>>

\* _verify_checksum(frame); "expected" is computed only once the data has
\* decoded and the trailer has parsed.
VerifyChecksum ==
  /\ codec.op = "frame"
  /\ \E hex_str \in {StripEnds(codec.frame)} :
       codec' = [codec EXCEPT
                   !.op = "checked",
                   !.expected = IF IsAscii(hex_str) /\ IntHex(Last4(hex_str)).ok
                                THEN Some(verify_expected(codec.frame)) ELSE None,
                   !.result = verify_checksum(codec.frame)]
  /\ UNCHANGED <<machine, parse>>

\* _calculate_checksum(frame) on a frame that _build_command returned.
CalculateChecksum ==
  /\ codec.op = "frame"
  /\ codec.built
  /\ codec' = [codec EXCEPT !.op = "summed",
                            !.calculated = Some(calculate_checksum(codec.frame))]
  /\ UNCHANGED <<machine, parse>>

NextCodec ==
  \/ BuildCommand
  \/ TakeFrame
  \/ VerifyChecksum
  \/ CalculateChecksum

SpecCodec == Init /\ [][NextCodec]_vars

(***************************************************************************)
(* The field decoder and the block parsers called directly                 *)
(***************************************************************************)
\* Widths of a signed field in hex digits, and how far from zero, from the
\* sign bit and from the top of the range its values are enumerated.
MaxDigits == 4
EdgeSpan == 2048

SignedValues(length) ==
  Only({ Only({
    (0..(Min(EdgeSpan, top) - 1))
      \cup ((IF half > EdgeSpan THEN half - EdgeSpan ELSE 0)..Min(top - 1, half + EdgeSpan))
      \cup ((IF top > EdgeSpan THEN top - EdgeSpan ELSE 0)..(top - 1)) :
    half \in {Pow2(4 * length - 1)} }) :
    top  \in {Pow2(4 * length)} })

\* convert_signed(decoded, pos, length, scale) on a field of the given
\* width carrying the given value, between two other bytes.
ReadSigned ==
  /\ parse.op = "idle"
  /\ \E length \in 1..MaxDigits, scale \in {1, 10} :
       \E value \in SignedValues(length) :
         \E decoded \in {"F0" \o FormatX(value, length) \o "0F"} :
           parse' = [op     |-> "signed",
                     input  |-> [decoded |-> decoded, pos |-> 2, length |-> length,
                                 scale |-> scale, value |-> value],
                     result |-> convert_signed(decoded, 2, length, scale),
                     record |-> <<>>]
  /\ UNCHANGED <<machine, codec>>

\* Complete header blocks of 66 hex digits: digits 0..19 (voltage to soc),
\* 20..43 (ambient temperatures, cell voltages, the unread digits 36..39,
\* temperature_max), 44..61 (reserved) and 62..65 (the two counts).
HeaderBlocks ==
  {a \o b \o c \o d :
     a \in {"15A5000001A401A40064", "0000FFFF0000FFFF0000", "FFFF8000FFFF00000001"},
     b \in {"00A000960E2A0D1A00820050", "FF9CFF380000FFFF7FFF8000"},
     c \in {"000000000000000000", "FFEC00000000000000"},
     d \in {"1004", "0202", "0000", "FFFF"}}

\* Offsets a block is parsed at (12 is the default) and what follows it.
BlockOffsets == {0, 12, 13}
BlockSuffixes == {"", "00"}
Padding(n) == SubSeq("GGGGGGGGGGGGG", 1, n)

\* _parse_header_block(decoded, pos) on a complete block at pos.
ParseHeader ==
  /\ parse.op = "idle"
  /\ \E block \in HeaderBlocks, pos \in BlockOffsets, suffix \in BlockSuffixes :
       \E decoded \in {Padding(pos) \o block \o suffix} :
         parse' = [op     |-> "header",
                   input  |-> [decoded |-> decoded, pos |-> pos, block |-> block],
                   result |-> parse_header_block(decoded, pos),
                   record |-> <<>>]
  /\ UNCHANGED <<machine, codec>>

\* A complete battery block: header byte (the 0-based number) and reserved
\* byte, soc, voltage, the cell count and that many cell voltages, three
\* temperatures, the sensor count and that many sensor temperatures, then
\* current .. balance status (26 fields of four digits and the two digits
\* of the user-defined number).
RECURSIVE FieldRun(_, _, _)
FieldRun(base, i, count) ==
  IF i >= count THEN "" ELSE FormatX(base + i, 4) \o FieldRun(base, i + 1, count)

BlockTailText ==
  "FF6A" \o "000C" \o "0062" \o "01" \o "2710" \o "26AC" \o "0025"
    \o "0CF3" \o "0CE4" \o "00E1" \o "FFEC" \o "0003" \o "0004" \o "00D2"
    \o "0CEB" \o "01F4" \o "01E0" \o "0001" \o "0002" \o "0004" \o "0008"
    \o "0003" \o "0000" \o "0000" \o "0010" \o "0020" \o "0005"

BatteryText(number, c, t) ==
  FormatX(number, 2) \o "00" \o "63" \o "14C8" \o FormatX(c, 2)
    \o FieldRun(3300, 0, c) \o "00D7" \o "00DC" \o "FFF1" \o FormatX(t, 2)
    \o FieldRun(200, 0, t) \o BlockTailText

\* _parse_battery_block(decoded, pos) on a complete block at pos, and
\* _transform_battery_data on its result (as the first battery of a frame),
\* for every header byte (on a block of 2 cells and 1 sensor at the default
\* offset) and for blocks of several cell counts (one above the nominal 16
\* among them) and sensor counts.
ParseBattery ==
  /\ parse.op = "idle"
  /\ \E in \in {<<n, 2, 1, 12>> : n \in 0..255}
                \cup ({0, 255} \X {0, 2, 16, 17} \X {0, 1, 4} \X BlockOffsets) :
     \E number \in {in[1]}, c \in {in[2]}, t \in {in[3]}, pos \in {in[4]} :
       \E decoded \in {Padding(pos) \o BatteryText(number, c, t)} :
         \E r \in {parse_battery_block(decoded, pos)} :
           parse' = [op     |-> "battery",
                     input  |-> [decoded |-> decoded, pos |-> pos, number |-> number,
                                 c |-> c, t |-> t],
                     result |-> r,
                     record |-> IF r.ok THEN transform_battery_data(r.battery, 1)
                                ELSE <<>>]
  /\ UNCHANGED <<machine, codec>>

\* The most battery blocks a reply carries here.
MaxBlocks == 3

\* A block one of whose fields (the soc) does not read as hex.
CorruptBlock(text) == SubSeq(text, 1, 4) \o "GG" \o SubSeq(text, 7, Len(text))

\* The blocks of a reply: block j carries header byte numbers[j]; block
\* bad (if any) is corrupt.
RECURSIVE BlocksText(_, _, _)
BlocksText(numbers, bad, j) ==
  IF j > Len(numbers) THEN ""
  ELSE (IF j = bad THEN CorruptBlock(BatteryText(numbers[j], 2, 1))
        ELSE BatteryText(numbers[j], 2, 1))
         \o BlocksText(numbers, bad, j + 1)

\* An analog reply with return code 00, as the controller sends it: header
\* block announcing the blocks that follow, and the checksum of the body.
ReplyOf(numbers, bad) ==
  Only({ "~" \o body \o FormatX(Xor16(SumOrd(body) % 65536) + 1, 4) \o "\r" :
    body \in {"22004A00" \o "0000"
                \o "15A5000001A401A4006400A000960E2A0D1A00820050"
                \o "000000000000000000" \o "02" \o FormatX(Len(numbers), 2)
                \o BlocksText(numbers, bad, 1)} })

\* The configured battery count (1 to 15, 4 by default) and what __init__
\* keeps of it: self._battery_count = min(battery_count, 12).
MaxConfigured == 15
DefaultMaxBatteries == 4
MaxBatteriesPerGroup == 12
capped_battery_count(battery_count) == Min(battery_count, MaxBatteriesPerGroup)

\* Replies of up to MaxBlocks blocks in any numbering, none or one of them
\* corrupt, to a coordinator of the default configuration; and the reply of
\* a group of 13 batteries to coordinators configured for 1, 12 and 15.
SmallReplies ==
  UNION {[1..n -> 0..(n - 1)] \X (0..n) \X {DefaultMaxBatteries} : n \in 1..MaxBlocks}
FullReplies ==
  {<<[j \in 1..(MaxBatteriesPerGroup + 1) |-> j - 1], 0, c>> :
     c \in {1, MaxBatteriesPerGroup, MaxConfigured}}

\* Lines 797-828 of _async_update_data on a response that _read_response
\* returned, in a coordinator constructed with battery_count.
AssembleResponse ==
  /\ parse.op = "idle"
  /\ \E in \in SmallReplies \cup FullReplies :
       \E numbers \in {in[1]}, bad \in {in[2]}, battery_count \in {in[3]} :
         \E response \in {r \in {ReplyOf(numbers, bad)} : accepts(r)} :
           parse' = [op     |-> "snapshot",
                     input  |-> [response |-> response, numbers |-> numbers,
                                 bad |-> bad, battery_count |-> battery_count,
                                 capped |-> capped_battery_count(battery_count)],
                     result |-> assemble(response),
                     record |-> <<>>]
  /\ UNCHANGED <<machine, codec>>

\* text without its last n characters
CutShort(text, n) == SubSeq(text, 1, Len(text) - n)

\* _parse_header_block / _parse_battery_block on a block at pos whose last
\* digits are missing: the hex string ends inside the block.
ParseTruncated ==
  /\ parse.op = "idle"
  /\ \E pos \in BlockOffsets, missing \in {1, 2, 3, 4, 33, 66} :
       \/ \E block \in HeaderBlocks :
            \E decoded \in {Padding(pos) \o CutShort(block, missing)} :
              parse' = [op     |-> "truncated",
                        input  |-> [decoded |-> decoded, pos |-> pos, block |-> block,
                                    parser |-> "header", missing |-> missing],
                        result |-> parse_header_block(decoded, pos),
                        record |-> <<>>]
       \/ \E block \in {BatteryText(0, 2, 1)} :
            \E decoded \in {Padding(pos) \o CutShort(block, missing)} :
              parse' = [op     |-> "truncated",
                        input  |-> [decoded |-> decoded, pos |-> pos, block |-> block,
                                    parser |-> "battery", missing |-> missing],
                        result |-> parse_battery_block(decoded, pos),
                        record |-> <<>>]
  /\ UNCHANGED <<machine, codec>>

NextParse ==
  \/ ReadSigned
  \/ ParseHeader
  \/ ParseBattery
  \/ AssembleResponse
  \/ ParseTruncated

SpecParse == Init /\ [][NextParse]_vars

(***************************************************************************)
(* Properties                                                              *)
(***************************************************************************)
\* C1: two invocations of the poll cycle never interleave on the transport:
\* while one is between writing its command and the end of its read-response,
\* the other is not running or is blocked at the lock and has written and read
\* nothing.
PollCyclesSerialised ==
  \A p \in Polls, q \in Polls :
    (p # q /\ InFlight(p)) => pc[q] \in {"idle", "lock"}

\* A poll cycle awaits its response while the other is queued at the lock.
PollBlockedAtLock ==
  /\ pc["poll1"] = "read"
  /\ pc["poll2"] = "lock"
  /\ waiters = <<"poll2">>

\* C2: at most one send-then-read-response sequence is in progress at any
\* time, poll cycles and the protocol-version query taken together.
OneRequestInFlight ==
  Cardinality({p \in Procs : InFlight(p)}) <= 1

\* C3: a poll cycle that got no response (timeout, read error, write error)
\* leaves the stored snapshot as it was.
NoResponseKeepsSnapshot ==
  [][last'.kind = "no_response" => data' = data]_vars

\* A cycle ended without a response after an earlier cycle had stored a
\* snapshot, which is still there.
NoResponseAfterSnapshot ==
  /\ last.kind = "no_response"
  /\ data # EmptySnapshot
  /\ data.batteries # NoBatteries

\* C4: a poll cycle whose header parse failed leaves the stored snapshot as
\* it was before the cycle.
HeaderFailureKeepsSnapshot ==
  [][last'.kind = "header_failed" => data' = data]_vars

\* C5: a frame returned by _read_response starts with "~", ends with "\r",
\* passed checksum verification, is at least 30 bytes long and carries return
\* code "00" at its CID2 position.
ReturnedFramePassedGates ==
  last.sent = "frame" =>
    /\ SubSeq(last.frame, 1, 1) = "~"
    /\ SubSeq(last.frame, Len(last.frame), Len(last.frame)) = "\r"
    /\ Verified[last.frame]
    /\ Len(last.frame) >= 30
    /\ SubSeq(last.frame, 8, 9) = "00"

\* A frame was returned by a read that had dropped a candidate before it.
FrameReturnedAfterDiscard ==
  /\ last.sent = "frame"
  /\ last.discarded

\* C6: a read-response never waits beyond its timeout window, however many
\* candidates it has dropped: the time since it began is at most 2 s.
ReadWithinTimeout ==
  \A p \in Procs : pc[p] = "read" => clk[p] <= 20

\* A read that dropped a candidate waits at the end of its window.
DiscardingReadAtDeadline ==
  /\ pc["poll1"] = "read"
  /\ discarded["poll1"]
  /\ clk["poll1"] = 20

\* C7: _send_command never raises: it returns a validated frame or the
\* no-response value, whatever the transport did.
SendCommandNeverRaises ==
  last.proc # "" => last.sent \in {"frame", "none"}

\* _send_command returned the no-response value after its read had dropped
\* a candidate.
NoResponseAfterDiscard ==
  /\ last.sent = "none"
  /\ last.discarded

\* C8: the checksum computed on the encode path and on the verify path lies
\* in 0..65535.
ChecksumInRange ==
  /\ codec.checksum # None => codec.checksum[1] \in 0..65535
  /\ codec.expected # None => codec.expected[1] \in 0..65535

\* C9: _verify_checksum returns true exactly when the trailing four hex
\* digits, read as an integer, equal the checksum of the body before them:
\* ((sum mod 65536) xor 0xFFFF) + 1, reduced modulo 65536.
VerifyIsChecksumEquality ==
  codec.op = "checked" =>
    LET hex_str == StripEnds(codec.frame)
        trailer == IntHex(Last4(hex_str))
        sum_val == SumOrd(DropLast4(hex_str))
    IN codec.result <=>
         /\ IsAscii(hex_str)
         /\ trailer.ok
         /\ trailer.val = ((65535 - (sum_val % 65536)) + 1) % 65536

\* C10: _verify_checksum(_build_command(command, battery)) is true for every
\* command code of two hex digits, every group 0..7 and every battery
\* position, absent or present.
ChecksumRoundTrip ==
  (codec.op = "checked" /\ codec.built) => codec.result

\* The command "42" for position 13 of group 7 was built and then verified.
BuiltCommandVerified ==
  /\ codec.op = "checked"
  /\ codec.built
  /\ codec.args = <<"42", Some(13), 7>>
  /\ codec.frame = "~227D4A42E002FFFCE3" \o "\r"
  /\ codec.result


\* C11: the system analog query of group 0 is the known working command:
\* its body "22004A42E002FF" sums to the checksum FCFE and the frame built
\* is ~22004A42E002FFFCFE followed by a carriage return.
KnownVectorBuilt ==
  /\ verify_known_checksum = 64766
  /\ FormatX(verify_known_checksum, 4) = "FCFE"
  /\ (codec.built /\ codec.args = <<"42", None, DefaultGroup>>) =>
       /\ codec.checksum = Some(verify_known_checksum)
       /\ codec.frame = "~22004A42E002FFFCFE" \o "\r"
       /\ codec.frame = AnalogQuery

AnalogQueryBuilt ==
  /\ codec.op = "frame"
  /\ codec.built
  /\ codec.args = <<"42", None, DefaultGroup>>
  /\ codec.info_byte = None
  /\ codec.frame = "~22004A42E002FFFCFE" \o "\r"

SignedFold ==
  parse.op = "signed" =>
    \E v \in {parse.input.value}, bits \in {4 * parse.input.length} :
      /\ parse.result.ok
      /\ parse.result.val.den = parse.input.scale
      /\ v < Pow2(bits - 1) => parse.result.val.num = v
      /\ v >= Pow2(bits - 1) => parse.result.val.num = v - Pow2(bits)
      /\ parse.result.val.num \in (0 - Pow2(bits - 1))..(Pow2(bits - 1) - 1)
      /\ parse.input.decoded = "F0FFFF0F" => parse.result.val.num = 0 - 1
      /\ parse.input.decoded = "F07FFF0F" => parse.result.val.num = 32767
      /\ parse.input.decoded = "F080000F" => parse.result.val.num = 0 - 32768

NegativeByteRead ==
  /\ parse.op = "signed"
  /\ parse.input.decoded = "F0800F"
  /\ parse.input.scale = 10
  /\ parse.result = [ok |-> TRUE, val |-> Scaled(0 - 128, 10)]

\* C15: parsing a complete 66-digit header block at offset p succeeds with
\* next offset p + 66 and the leading fields read from their sub-offsets
\* 0, 4, 8, 12 and 16: a block beginning 15A5 0000 01A4 01A4 0064 gives
\* voltage 5541/100, current 0, total capacity 420, remaining capacity 420
\* and soc 100; parsing the same input again gives the same header.
HeaderDecoded ==
  parse.op = "header" =>
    \E block \in {parse.input.block}, header \in {parse.result.header} :
      /\ parse.result.ok
      /\ parse.result.pos = parse.input.pos + 66
      /\ header.voltage = Scaled(IntHex(SubSeq(block, 1, 4)).val, 100)
      /\ header.current.den = 1
      /\ header.current.num \in {IntHex(SubSeq(block, 5, 8)).val,
                                  IntHex(SubSeq(block, 5, 8)).val - 65536}
      /\ header.total_capacity = IntHex(SubSeq(block, 9, 12)).val
      /\ header.remaining_capacity = IntHex(SubSeq(block, 13, 16)).val
      /\ header.soc = IntHex(SubSeq(block, 17, 20)).val
      /\ SubSeq(block, 1, 20) = "15A5000001A401A40064" =>
           /\ header.voltage = Scaled(5541, 100)
           /\ header.current = Scaled(0, 1)
           /\ header.total_capacity = 420
           /\ header.remaining_capacity = 420
           /\ header.soc = 100
      /\ parse_header_block(parse.input.decoded, parse.input.pos) = parse.result

DocumentedHeaderParsed ==
  /\ parse.op = "header"
  /\ parse.input.pos = 12
  /\ parse.input.block =
       "15A5000001A401A4006400A000960E2A0D1A008200500000000000000000001004"
  /\ parse.result.ok
  /\ parse.result.pos = 78
  /\ parse.result.header.battery_count = 4

NumberIsWirePlusOne ==
  parse.op = "battery" =>
    /\ parse.result.ok
    /\ parse.result.battery["number"] = parse.input.number
    /\ parse.record.number = parse.input.number + 1
    /\ SubSeq(parse.input.decoded, parse.input.pos + 1, parse.input.pos + 2) = "00"
         => parse.record.number = 1

HighWireNumberStored ==
  /\ parse.op = "battery"
  /\ parse.input.number = 255
  /\ SubSeq(parse.input.decoded, parse.input.pos + 1, parse.input.pos + 2) = "FF"
  /\ parse.record.number = 256

\* C18: every record of the snapshot is stored under its own number: the
\* record at key k has number k, whatever header bytes the blocks carry.
RecordKeyedByNumber ==
  parse.op = "snapshot" =>
    \A k \in DOMAIN parse.result.data.batteries :
      parse.result.data.batteries[k].number = k

\* C19: when exactly one of the N blocks of a reply cannot be parsed, the
\* snapshot holds the group header and the other N - 1 batteries.
OneBadBlockOthersKept ==
  (parse.op = "snapshot" /\ parse.input.bad # 0) =>
    /\ parse.result.kind = "ok"
    /\ parse.result.data.group # <<>>
    /\ DOMAIN parse.result.data.batteries
         = (1..Len(parse.input.numbers)) \ {parse.input.bad}

\* C20: a block k that fails to parse costs only its own entry: the cycle
\* goes on to return the snapshot, which has no entry k and keeps the raw
\* header, the group entry and the entries of the blocks parsed before k.
FailureIsolated ==
  (parse.op = "snapshot" /\ parse.input.bad # 0) =>
    \E k \in {parse.input.bad}, snapshot \in {parse.result.data} :
      /\ parse.result.kind = "ok"
      /\ snapshot.raw_system # <<>>
      /\ snapshot.raw_system[1].battery_count = Len(parse.input.numbers)
      /\ snapshot.group = <<transform_group_data(snapshot.raw_system[1])>>
      /\ k \notin DOMAIN snapshot.batteries
      /\ \A j \in 1..(k - 1) :
           /\ j \in DOMAIN snapshot.batteries
           /\ snapshot.batteries[j].number = parse.input.numbers[j] + 1
           /\ snapshot.batteries[j].cell_count = 2

ThirdBlockFailed ==
  /\ parse.op = "snapshot"
  /\ parse.input.bad = 3
  /\ parse.input.numbers = <<0, 1, 2>>
  /\ parse.result.kind = "ok"
  /\ DOMAIN parse.result.data.batteries = {1, 2}

\* C21: a candidate shorter than 30 bytes is dropped without ending the
\* read: it is never the frame returned, and a read loop that consumed only
\* short candidates is suspended in readuntil again, nothing returned, with
\* as much of its timeout left as before.
ShortFrameSkipped ==
  [][\A p \in Procs :
       (pc[p] \in {"sleep", "read"} /\ Len(rx') < Len(rx)) =>
         \E n \in {Len(rx) - Len(rx')} :
           /\ (pc'[p] = "idle" /\ last'.sent = "frame")
                => Len(last'.frame) >= MinResponseLen
           /\ (\A i \in 1..n : Len(rx[i]) < MinResponseLen) =>
                /\ pc'[p] = "read"
                /\ waiter' = <<p>>
                /\ last' = last
                /\ discarded'[p]
                /\ dropped'[p] = Len(rx[n])
                /\ deadline'[p] - clk'[p] =
                     IF pc[p] = "sleep" THEN TimeoutTicks ELSE deadline[p] - clk[p]
    ]_vars

ShortFrameDropped ==
  /\ pc["poll1"] = "read"
  /\ dropped["poll1"] = Len(FrameVersion)
  /\ dropped["poll1"] < MinResponseLen
  /\ clk["poll1"] > 0
  /\ deadline["poll1"] = TimeoutTicks

\* C22: when the header parses, the block parser is called exactly
\* battery_count times (the count that header reports); the first call
\* starts at the offset the header parser returned, and every call after a
\* successful one starts at the offset that one returned.
ParserCalledPerBattery ==
  (parse.op = "snapshot" /\ parse.result.kind = "ok") =>
    \E calls \in {parse.result.calls} :
      /\ Len(calls) = parse.result.data.raw_system[1].battery_count
      /\ Len(calls) = Len(parse.input.numbers)
      /\ calls # <<>> => calls[1].start = 12 + 66
      /\ \A i \in 2..Len(calls) :
           calls[i - 1].ok => calls[i].start = calls[i - 1].next

ThreeBlocksInSequence ==
  /\ parse.op = "snapshot"
  /\ parse.input.bad = 0
  /\ parse.result.calls = << [start |-> 78, ok |-> TRUE, next |-> 222],
                             [start |-> 222, ok |-> TRUE, next |-> 366],
                             [start |-> 366, ok |-> TRUE, next |-> 510] >>

\* C27: at most 12 batteries per group: whatever count is configured and
\* whatever battery_count the header reports, a cycle parses at most 12
\* blocks and the snapshot has no battery key above 12.
BatteryCountCapped ==
  parse.op = "snapshot" =>
    /\ parse.input.battery_count \in 1..MaxConfigured
    /\ parse.input.capped <= MaxBatteriesPerGroup
    /\ Len(parse.result.calls) <= MaxBatteriesPerGroup
    /\ \A k \in DOMAIN parse.result.data.batteries : k <= MaxBatteriesPerGroup

ChunkConsumed == rx' # rx /\ Len(rx') <= Len(rx)

Suspends(p) == waiter' = <<p>> /\ waiter # <<p>>

Returns(p) ==
  /\ pc'[p] = "idle"
  /\ pc[p] # "idle" \/ (last' # last /\ last'.proc = p)

Acts(p) ==
  pc'[p] # pc[p] \/ Suspends(p) \/ Returns(p) \/ discarded'[p] # discarded[p]

WriteFlushDelayRead ==
  [][\A p \in Procs :
       /\ (pc'[p] = "drain" /\ pc[p] # "drain") =>
            /\ pc[p] \in {"idle", "lock"}
            /\ writes'[p] = 1
            /\ tx' = IF p \in Polls THEN AnalogQuery ELSE VersionQuery
       /\ (pc'[p] = "sleep" /\ pc[p] # "sleep") =>
            /\ pc[p] = "drain"
            /\ clk'[p] = 0
            /\ deadline'[p] = SleepTicks
       /\ (pc'[p] = "read" /\ pc[p] # "read") =>
            /\ pc[p] = "sleep"
            /\ clk[p] >= SleepTicks
       /\ (Acts(p) /\ (ChunkConsumed \/ Suspends(p)
                       \/ (Returns(p) /\ last'.sent = "frame"))) =>
            \/ pc[p] = "read"
            \/ pc[p] = "sleep" /\ clk[p] >= SleepTicks
       /\ (Returns(p) /\ pc[p] \in {"idle", "lock", "drain"}) =>
            /\ rx' = rx
            /\ waiter' = waiter
            /\ last'.sent # "frame"
  ]_vars

\* The read of a poll cycle has just begun, after its write and its delay.
ReadBegunAfterDelay ==
  /\ pc["poll1"] = "read"
  /\ clk["poll1"] = 0
  /\ deadline["poll1"] = TimeoutTicks
  /\ writes["poll1"] = 1
  /\ tx = AnalogQuery
  /\ waiter = <<"poll1">>

\* C25: the snapshot is replaced only once the result of the cycle is
\* assembled: over every step that leaves a poll cycle suspended in its
\* write, its delay or its read the snapshot stays what it was, and the
\* snapshot changes only in the step in which a cycle returns with a
\* response, to what was assembled from that response.
SnapshotSteadyInCycle ==
  [][/\ \A p \in Polls :
          (InFlight(p) /\ pc'[p] \in {"drain", "sleep", "read"}) => data' = data
     /\ data' # data =>
          \E p \in Polls :
            /\ InFlight(p)
            /\ pc'[p] = "idle"
            /\ last'.proc = p
            /\ last'.sent = "frame"
            /\ data' = Assembled[last'.frame].data
    ]_vars

\* A cycle is suspended in its read while the snapshot of the cycle before
\* it, with a battery in it, is there to be read.
PreviousSnapshotDuringRead ==
  /\ pc["poll2"] = "read"
  /\ last.proc = "poll1"
  /\ last.sent = "frame"
  /\ data = Assembled[last.frame].data
  /\ data.batteries # EmptySnapshot.batteries

\* C26: a poll cycle whose header parses replaces the snapshot entirely: when
\* such a cycle returns, the snapshot is what its frame assembles to, its
\* batteries are exactly those whose block this cycle parsed, and a battery
\* of the snapshot before that this cycle did not produce is absent.
SnapshotReplacedByCycle ==
  [][\A p \in Polls :
       (Returns(p) /\ last'.sent = "frame" /\ last'.kind = "ok") =>
         \E r \in {Assembled[last'.frame]} :
           /\ data' = r.data
           /\ DOMAIN data'.batteries = {i \in 1..Len(r.calls) : r.calls[i].ok}
           /\ \A k \in DOMAIN data.batteries :
                 k \notin DOMAIN r.data.batteries => k \notin DOMAIN data'.batteries
    ]_vars

\* A cycle returned a snapshot without battery 2, which the snapshot before
\* it held.
BatteryOfPreviousCycleAbsent ==
  /\ last.proc = "poll1"
  /\ last.sent = "frame"
  /\ last.kind = "ok"
  /\ 2 \in last.before
  /\ 2 \notin DOMAIN data.batteries
  /\ 1 \in DOMAIN data.batteries

ListLengthsMatchWire ==
  /\ (parse.op = "battery" /\ parse.result.ok) =>
        /\ Len(parse.record.cell_voltages) = parse.input.c
        /\ Len(parse.record.temperatures) = parse.input.t
        /\ parse.record.cell_count = Len(parse.record.cell_voltages)
        /\ parse.record.temp_count = Len(parse.record.temperatures)
  /\ (parse.op = "snapshot") =>
        \A k \in DOMAIN parse.result.data.batteries :
          \E b \in {parse.result.data.batteries[k]} :
            /\ Len(b.cell_voltages) = 2
            /\ Len(b.temperatures) = 1
            /\ b.cell_count = Len(b.cell_voltages)
            /\ b.temp_count = Len(b.temperatures)

\* A block of 16 cells and no sensor was parsed into a record.
SixteenCellsNoSensor ==
  /\ parse.op = "battery"
  /\ parse.result.ok
  /\ parse.input.c = 16
  /\ parse.input.t = 0
  /\ Len(parse.record.cell_voltages) = 16
  /\ parse.record.temperatures = <<>>

\* C30: the lock is released at the end of every poll cycle, however it
\* ends: the step in which a cycle returns passes the lock to the first
\* queued invocation, or frees it; and an invocation queued at the lock
\* eventually leaves the queue holding it, given that flushes complete and
\* timers fire.
GuardReleasedEveryCycle ==
  /\ [][\A p \in Polls :
         Returns(p) =>
           /\ lock' # <<p>>
           /\ lock' = IF waiters = <<>> THEN <<>> ELSE <<Head(waiters)>>
           /\ waiters' = IF waiters = <<>> THEN <<>> ELSE Tail(waiters)]_vars
  /\ \A p \in Polls : (pc[p] = "lock") ~> (pc[p] # "lock" /\ writes[p] = 1)

\* A cycle whose header failed to parse has passed the lock to the queued
\* invocation.
LockPassedAfterHeaderFailure ==
  /\ last.proc = "poll1"
  /\ last.kind = "header_failed"
  /\ pc["poll1"] = "idle"
  /\ pc["poll2"] = "lock"
  /\ lock = <<"poll2">>
  /\ waiters = <<>>

\* C39: the checksum computations agree: for a frame that _build_command
\* built, _calculate_checksum returns the value that _build_command put in
\* it, which is the value _verify_checksum computes from it.
ChecksumHelpersAgree ==
  (codec.op = "summed") =>
    /\ codec.calculated = codec.checksum
    /\ codec.calculated = Some(verify_expected(codec.frame))

\* C38: a battery record holds between 0 and 16 cell voltages, also when
\* the cell-count byte of its block exceeds 16.
CellsAtMostSixteen ==
  (parse.op = "battery" /\ parse.result.ok) =>
    Len(parse.record.cell_voltages) <= 16

\* C34: the header fields are read from their documented sub-offsets of
\* the 66-digit block and their ranges are pairwise disjoint: temperature_min
\* is the value of digits 36..39, temperature_max that of digits 40..43, the
\* reserved span is digits 44..61, and no field is read from digits of the
\* reserved span or of another field.
HeaderFieldsAsDocumented ==
  (parse.op = "header" /\ parse.result.ok) =>
    /\ parse.result.header.temperature_min =
         convert_signed(parse.input.block, 36, 4, 10).val
    /\ parse.result.header.temperature_max =
         convert_signed(parse.input.block, 40, 4, 10).val
    /\ parse.result.header.reserved = SubSeq(parse.input.block, 45, 62)
    /\ \A i, j \in 1..Len(HeaderFields) :
         i # j => \/ HeaderFields[i].off + HeaderFields[i].len <= HeaderFields[j].off
                  \/ HeaderFields[j].off + HeaderFields[j].len <= HeaderFields[i].off
    /\ \A i \in 1..Len(HeaderFields) :
         \/ HeaderFields[i].off + HeaderFields[i].len <= 44
         \/ HeaderFields[i].off >= 62

\* C33: every field is decoded from its full width: when the hex string
\* ends before the last digit of a header block or of a battery block, the
\* parser fails; so _parse_header_block fails on every input shorter than
\* offset + 66 digits.
TruncatedBlockFails ==
  (parse.op = "truncated") => ~parse.result.ok

\* C32: when block k fails to parse the cursor stays: every later block of
\* the cycle is parsed from the start offset of block k and fails too, and
\* the snapshot holds the raw header, the group entry and exactly the
\* batteries 1..k-1.
CursorStaysAfterFailure ==
  (parse.op = "snapshot" /\ parse.input.bad # 0) =>
    \E k \in {parse.input.bad}, calls \in {parse.result.calls} :
      /\ parse.result.kind = "ok"
      /\ Len(calls) = Len(parse.input.numbers)
      /\ calls[k].start = 12 + 66 + 144 * (k - 1)
      /\ \A i \in k..Len(calls) :
           /\ calls[i].start = calls[k].start
           /\ ~calls[i].ok
      /\ \A i \in 1..(k - 1) : calls[i].ok
      /\ DOMAIN parse.result.data.batteries = 1..(k - 1)
      /\ parse.result.data.group # <<>>
      /\ parse.result.data.raw_system # <<>>

\* The second of three blocks failed: the third was parsed from the same
\* offset, and only battery 1 is in the snapshot.
SecondBlockFailedThirdLost ==
  /\ parse.op = "snapshot"
  /\ parse.input.bad = 2
  /\ Len(parse.input.numbers) = 3
  /\ parse.result.calls[2].start = 222
  /\ parse.result.calls[3].start = 222
  /\ ~parse.result.calls[3].ok
  /\ DOMAIN parse.result.data.batteries = {1}

\* C37: after any sequence of poll cycles the snapshot is well formed: it
\* is the empty map, or it holds the raw header and the group entry and
\* every integer key k of it has 1 <= k <= battery_count of that header.
SnapshotWellFormed ==
  \/ data = EmptySnapshot
  \/ /\ data.raw_system # <<>>
     /\ data.group = <<transform_group_data(data.raw_system[1])>>
     /\ \A k \in DOMAIN data.batteries :
          1 <= k /\ k <= data.raw_system[1].battery_count

\* The snapshot of a cycle whose frame announced two batteries and carried
\* one: key 1 only, under a header with battery_count 2.
PartialSnapshotWellFormed ==
  /\ last.proc = "poll1"
  /\ last.kind = "ok"
  /\ last.frame = FrameTrunc
  /\ data.raw_system # <<>>
  /\ data.raw_system[1].battery_count = 2
  /\ DOMAIN data.batteries = {1}

\* C36: a protocol-version query returns the version whenever a correctly
\* delimited, checksum-valid reply with return code 00 arrives within the
\* timeout, the 18-byte reply with an empty INFO field included: the step in
\* which the suspended read of the query takes such a reply off the buffer
\* returns the version of that reply and stores it.
VersionReplyReturned ==
  [][\A f \in VersionReplies :
       ( /\ pc["ver"] = "read"
         /\ clk["ver"] < deadline["ver"]
         /\ rx = <<f>>
         /\ ChunkConsumed
         /\ PySlice(f, 0, 1) = "~" /\ PySlice(f, Len(f) - 1, Len(f)) = "\r"
         /\ Verified[f]
         /\ PySlice(f, 7, 9) = "00" )
       => /\ Returns("ver")
          /\ last'.kind = "version"
          /\ last'.frame = f
          /\ protocol_version' = <<Versions[f]>>]_vars

\* C35: between any two consecutive command writes, from any mix of poll
\* cycles and protocol-version queries, at least the inter-command spacing
\* of 0.9 s elapses: a step in which an invocation writes its command is
\* taken only when the delay has run in full since the last command was
\* written.
CommandsSpaced ==
  [][\A p \in Procs :
       (pc'[p] = "drain" /\ pc[p] # "drain") => since >= SleepTicks]_vars

\* C31: the frame a query returns is the response to the command that same
\* query wrote: a frame that was already in the receive buffer when the
\* query wrote its command (left there by an earlier query that timed out)
\* is never returned as the response of the current query.  The frame a
\* returning step hands back is the last chunk it took off the buffer.
ReturnedFrameIsOwnReply ==
  [][\A p \in Procs :
       (Returns(p) /\ last'.sent = "frame")
         => Len(rx) - Len(rx') > stale[p]]_vars

====
